---------------------------- MODULE Spec2Model ----------------------------
(***************************************************************************)
(* Model of the tcx tool: Trackpoint extraction (src/src/lib.rs) and the   *)
(* windowed aggregation of main (src/src/main.rs).                         *)
(*                                                                         *)
(* f64 values are modelled as extended rationals <<n, d>>:                 *)
(*   d > 0      the finite value n/d (in lowest terms),                    *)
(*   <<1, 0>>   +inf,   <<-1, 0>>  -inf,   <<0, 0>>  NaN.                  *)
(* The operators follow IEEE-754 for the special values (x/0, 0*inf,       *)
(* inf-inf, comparisons with NaN); rounding is not modelled.  There is one *)
(* zero: the only divisions of a non-zero value by zero in the program are *)
(* by a freshly computed delta (d - d or a cast of the integer 0), which   *)
(* is +0.0.                                                                *)
(***************************************************************************)
EXTENDS Integers, Sequences, FiniteSets, TLC

VARIABLES
    points,         \* main: the Vec<Trackpoint> returned by from_tcx
    grouping,       \* cli.grouping
    cli_qdh,        \* cli.qdh
    group_len,      \* main: window size
    values,         \* main: the open window's Values
    qdh,            \* the Qdh accumulator
    k,              \* main: index of the next pair (points[k], points[k+1])
    pc,             \* position of the running function
    out,            \* the arguments of every write_window call, in order
    inc_distance,   \* Qdh::update: local inc_distance
    inc_elevation,  \* Qdh::update: local inc_elevation
    group_length,   \* Qdh::update: parameter group_length
    flush,          \* Qdh::update: parameter flush
    flushes,        \* number of Qdh::flush calls made by the running update
    tcx,            \* from_tcx: the document
    filter,         \* from_tcx: the filter predicate
    result          \* from_tcx / parse: the returned Result

vars == <<points, grouping, cli_qdh, group_len, values, qdh, k, pc, out,
          inc_distance, inc_elevation, group_length, flush, flushes,
          tcx, filter, result>>

-----------------------------------------------------------------------------
(* Bounds of the model *)

MaxPoints == 3      \* longest sample sequence fed to main
MaxTick == 2        \* latest timestamp, in ticks
TicksPerSec == 2    \* timestamp resolution of the model (chrono: 10^9)
MaxDist == 1        \* largest DistanceMeters value
MaxCount == 3       \* largest count of Grouping::Count
MaxHalfLen == 2     \* largest length of Grouping::Length, in halves
MaxQdh == 1         \* largest --qdh threshold of an aggregation run
MaxQdhLen == 2      \* largest threshold handed to Qdh::update on its own
MaxInc == 2         \* largest distance / elevation increment of one update
MaxCalls == 2       \* Qdh::update calls in a row
MaxDen == 2         \* largest denominator of a split of one increment
MaxNodes == 3       \* most <Trackpoint> nodes of a document

-----------------------------------------------------------------------------
(* f64 arithmetic *)

Abs(x) == IF x < 0 THEN -x ELSE x

Sgn(x) == IF x < 0 THEN -1 ELSE IF x > 0 THEN 1 ELSE 0

RECURSIVE Gcd(_, _)
Gcd(a, b) == IF b = 0 THEN a ELSE Gcd(b, a % b)

Norm(n, d) ==
    IF d = 0 THEN <<Sgn(n), 0>>
    ELSE LET g == Gcd(Abs(n), d) IN <<n \div g, d \div g>>

F(n) == <<n, 1>>
Q(n, d) == Norm(n, d)
NaN == <<0, 0>>
PInf == <<1, 0>>
NInf == <<-1, 0>>

IsFinite(x) == x[2] > 0

FAdd(x, y) ==
    IF x[2] = 0 /\ y[2] = 0
    THEN (IF x = y THEN x ELSE NaN)
    ELSE Norm(x[1] * y[2] + y[1] * x[2], x[2] * y[2])

FNeg(x) == <<-x[1], x[2]>>

FSub(x, y) == FAdd(x, FNeg(y))

FMul(x, y) == Norm(x[1] * y[1], x[2] * y[2])

FDiv(x, y) ==
    LET s == IF y[1] < 0 THEN -1 ELSE 1
    IN  Norm(s * x[1] * y[2], s * x[2] * y[1])

FGe(x, y) ==
    IF x = NaN \/ y = NaN THEN FALSE
    ELSE IF x[2] = 0 /\ y[2] = 0 THEN x[1] >= y[1]
    ELSE IF x[2] = 0 THEN x[1] = 1
    ELSE IF y[2] = 0 THEN y[1] = -1
    ELSE x[1] * y[2] >= y[1] * x[2]

FGt(x, y) ==
    IF x = NaN \/ y = NaN THEN FALSE
    ELSE IF x[2] = 0 /\ y[2] = 0 THEN x[1] > y[1]
    ELSE IF x[2] = 0 THEN x[1] = 1
    ELSE IF y[2] = 0 THEN y[1] = -1
    ELSE x[1] * y[2] > y[1] * x[2]

\* f64::max: the other operand when one is NaN
FMax(x, y) == IF x = NaN THEN y ELSE IF y = NaN THEN x ELSE IF FGe(x, y) THEN x ELSE y

-----------------------------------------------------------------------------
(* Option<f64> and Trackpoint *)

None == <<>>

UnwrapOr(o, dflt) == IF o = None THEN dflt ELSE o

Trackpoint(time, latitude, longitude, altitude, distance, heartrate, cadence, speed, power) ==
    [time |-> time, latitude |-> latitude, longitude |-> longitude,
     altitude |-> altitude, distance |-> distance, heartrate |-> heartrate,
     cadence |-> cadence, speed |-> speed, power |-> power]

\* Duration::num_seconds of a difference of timestamps: whole seconds,
\* truncated towards zero
NumSeconds(ticks) ==
    IF ticks >= 0 THEN ticks \div TicksPerSec ELSE -((-ticks) \div TicksPerSec)

\* a get that takes a missing distance of m for 0
GroupByGetFromZero(group_by, m, n) ==
    IF group_by = "Distance"
    THEN (IF n.distance = None THEN F(0)
          ELSE FSub(n.distance, UnwrapOr(m.distance, F(0))))
    ELSE F(NumSeconds(n.time - m.time))

GroupByGet(group_by, m, n) ==
    IF group_by = "Distance"
    THEN (IF n.distance = None THEN F(0)
          ELSE FSub(n.distance, UnwrapOr(m.distance, n.distance)))
    ELSE F(NumSeconds(n.time - m.time))

-----------------------------------------------------------------------------
(* Values *)

ValuesAdd(a, b) ==
    [group_len |-> FAdd(a.group_len, b.group_len),
     duration  |-> FAdd(a.duration, b.duration),
     distance  |-> FAdd(a.distance, b.distance),
     elevation |-> FAdd(a.elevation, b.elevation),
     power     |-> FAdd(a.power, b.power),
     heartrate |-> FAdd(a.heartrate, b.heartrate)]

ValuesMult(a, f) ==
    [group_len |-> FMul(f, a.group_len),
     duration  |-> FMul(f, a.duration),
     distance  |-> FMul(f, a.distance),
     elevation |-> FMul(f, a.elevation),
     power     |-> FMul(f, a.power),
     heartrate |-> FMul(f, a.heartrate)]

ValuesZero ==
    [group_len |-> F(0), duration |-> F(0), distance |-> F(0),
     elevation |-> F(0), power |-> F(0), heartrate |-> F(0)]

\* Values::delta; the two expect() calls on altitude never fail in main,
\* whose filter keeps only points with an altitude
ValuesDelta(m, n, group_by) ==
    [group_len |-> GroupByGet(group_by, m, n),
     distance  |-> GroupByGet("Distance", m, n),
     duration  |-> GroupByGet("Duration", m, n),
     elevation |-> FMax(FSub(n.altitude, m.altitude), F(0)),
     power     |-> FMul(FDiv(FAdd(UnwrapOr(n.power, F(0)), UnwrapOr(m.power, F(0))), F(2)),
                        GroupByGet("Duration", m, n)),
     heartrate |-> FMul(FDiv(FAdd(UnwrapOr(n.heartrate, F(0)), UnwrapOr(m.heartrate, F(0))), F(2)),
                        GroupByGet("Duration", m, n))]

-----------------------------------------------------------------------------
(* Qdh *)

QdhZero == [qdh |-> F(0), distance |-> F(0), elevation |-> F(0)]

QdhIncrement(q, id, ie) ==
    [q EXCEPT !.distance = FAdd(q.distance, id),
              !.elevation = FAdd(q.elevation, ie)]

QdhFlush(q) ==
    [qdh |-> IF FGt(q.distance, F(0))
             THEN FAdd(q.qdh, FMul(FDiv(FMul(q.elevation, q.elevation), q.distance), F(10)))
             ELSE q.qdh,
     distance |-> F(0),
     elevation |-> F(0)]

\* a loop condition that lets a bucket of exactly the threshold stay
QdhLoopCondGt(q, id, gl) == FGt(FAdd(q.distance, id), gl)

\* the loop condition of Qdh::update
QdhLoopCond(q, id, gl) == FGe(FAdd(q.distance, id), gl)

\* a loop iteration that forgets to scale the elevation left over
QdhLoopBodyKeepElevation(q, id, ie, gl) ==
    LET f == FDiv(FSub(gl, q.distance), id)
    IN  [q  |-> QdhFlush(QdhIncrement(q, FMul(f, id), FMul(f, ie))),
         id |-> FMul(FSub(F(1), f), id),
         ie |-> ie]

\* one iteration of the loop of Qdh::update
QdhLoopBody(q, id, ie, gl) ==
    LET f == FDiv(FSub(gl, q.distance), id)
    IN  [q  |-> QdhFlush(QdhIncrement(q, FMul(f, id), FMul(f, ie))),
         id |-> FMul(FSub(F(1), f), id),
         ie |-> FMul(FSub(F(1), f), ie)]

\* a tail that never flushes
QdhTailNoFlush(q, id, ie, fl) == QdhIncrement(q, id, ie)

\* the code after the loop of Qdh::update
QdhTail(q, id, ie, fl) ==
    LET q1 == QdhIncrement(q, id, ie) IN IF fl THEN QdhFlush(q1) ELSE q1

\* The loop of Qdh::update run to its end.  An iteration that leaves q,
\* inc_distance and inc_elevation as they were repeats for ever: div.
RECURSIVE QdhLoop(_, _, _, _)
QdhLoop(q, id, ie, gl) ==
    IF ~QdhLoopCond(q, id, gl) THEN [q |-> q, id |-> id, ie |-> ie, div |-> FALSE]
    ELSE LET s == QdhLoopBody(q, id, ie, gl)
         IN  IF s.q = q /\ s.id = id /\ s.ie = ie
             THEN [q |-> q, id |-> id, ie |-> ie, div |-> TRUE]
             ELSE QdhLoop(s.q, s.id, s.ie, gl)

\* Qdh::update as a function: the new Qdh, and whether the call returns
QdhUpdate(q, id, ie, gl, fl) ==
    LET l == QdhLoop(q, id, ie, gl)
    IN  [q |-> IF l.div THEN l.q ELSE QdhTail(l.q, l.id, l.ie, fl),
         returns |-> ~l.div]

-----------------------------------------------------------------------------
(* main: the aggregation run over the points returned by from_tcx *)

DefaultQdh == 50

Epsilon == Q(1, 1000000)

\* the (altitude, heartrate, power) readings a sample may carry
Sensors == { <<F(0), None, F(2)>>, <<F(1), F(1), None>> }

\* the samples main folds over: its filter keeps only points with an
\* altitude and a distance
PointVals ==
    { Trackpoint(t, None, None, s[1], F(d), s[2], None, None, s[3]) :
        t \in 0..MaxTick, d \in 0..MaxDist, s \in Sensors }

\* from_tcx returns no two adjacent equal points (Vec::dedup)
NoAdjacentEqual(ps) == \A i \in 1..(Len(ps) - 1) : ps[i] # ps[i + 1]

PointSeqs ==
    UNION { { ps \in [1..n -> PointVals] : NoAdjacentEqual(ps) } : n \in 0..MaxPoints }

\* the window lengths of Grouping::Length: halves, and the length 1/epsilon
\* of which an open window of one unit is exactly the epsilon fraction
Lengths == { Q(h, 2) : h \in 0..MaxHalfLen } \cup { FDiv(F(1), Epsilon) }

Groupings ==
    UNION { { [mode |-> "Length", group_by |-> g, length |-> l, count |-> 0] :
                l \in Lengths }
            \cup
            { [mode |-> "Count", group_by |-> g, length |-> F(0), count |-> c] :
                c \in 0..MaxCount } : g \in {"Duration", "Distance"} }

\* the five samples of the test document of lib.rs, one second apart and
\* 3.6 m apart, given an altitude of 0 so that main's filter keeps them
ScenarioPoints ==
    [i \in 1..5 |->
        Trackpoint((i - 1) * TicksPerSec, None, None, F(0), Q((i - 1) * 18, 5),
                   None, None, None, None)]

ScenarioGrouping(len) ==
    [mode |-> "Length", group_by |-> "Duration", length |-> F(len), count |-> 0]

NoFrame ==
    /\ inc_distance = F(0)
    /\ inc_elevation = F(0)
    /\ group_length = F(0)
    /\ flush = FALSE
    /\ flushes = 0

NoTcx ==
    /\ tcx = <<>>
    /\ filter = "all"

Init ==
    /\ \/ /\ points \in PointSeqs
          /\ grouping \in Groupings
          /\ cli_qdh \in { F(q) : q \in 0..MaxQdh }
       \/ /\ points = ScenarioPoints
          /\ grouping \in { ScenarioGrouping(2), ScenarioGrouping(3) }
          /\ cli_qdh = F(DefaultQdh)
    /\ group_len = F(0)
    /\ values = ValuesZero
    /\ qdh = QdhZero
    /\ k = 1
    /\ pc = "start"
    /\ out = <<>>
    /\ result = "running"
    /\ NoFrame
    /\ NoTcx

\* main, lines 389-398: the window size; "none" when expect("No points")
\* panics
GroupLen(g, ps) ==
    IF g.mode = "Length" THEN g.length
    ELSE IF ps = <<>> THEN None
    ELSE FDiv(GroupByGet(g.group_by, ps[1], ps[Len(ps)]), F(g.count))

\* an assertion that lets a window size of zero pass
AssertOkGe(gl) == FGe(gl, F(0))

\* main, line 399: assert!(group_len > 0.0)
AssertOk(gl) == FGt(gl, F(0))

\* a trailing test that prints an open window of exactly epsilon
TrailingApplicableGe(v, gl) == FGe(v.group_len, FMul(Epsilon, gl))

\* main, line 433: whether the last group is printed
TrailingApplicable(v, gl) == FGt(v.group_len, FMul(Epsilon, gl))

\* main, lines 383-402
Start ==
    /\ pc = "start"
    /\ LET gl == GroupLen(grouping, points)
       IN  IF gl = None
           THEN /\ pc' = "panic"
                /\ result' = "panic: No points"
                /\ UNCHANGED group_len
           ELSE IF ~AssertOk(gl)
           THEN /\ pc' = "panic"
                /\ result' = "panic: assertion failed: group_len > 0.0"
                /\ group_len' = gl
           ELSE /\ pc' = "fold"
                /\ group_len' = gl
                /\ UNCHANGED result
    /\ values' = ValuesZero
    /\ qdh' = QdhZero
    /\ UNCHANGED <<points, grouping, cli_qdh, k, out, inc_distance, inc_elevation,
                   group_length, flush, flushes, tcx, filter>>

Incs == ValuesDelta(points[k], points[k + 1], grouping.group_by)

GroupDone == FGe(FAdd(values.group_len, Incs.group_len), group_len)

\* main, line 410
SplitF == FDiv(FSub(group_len, values.group_len), Incs.group_len)

\* main, lines 404-424: a pair that closes the window
StepClose ==
    /\ pc = "fold"
    /\ k < Len(points)
    /\ GroupDone
    /\ LET f  == SplitF
           g  == FSub(F(1), f)
           u1 == QdhUpdate(qdh, FMul(Incs.distance, f), FMul(Incs.elevation, f),
                           cli_qdh, TRUE)
           u2 == QdhUpdate(QdhZero, FMul(Incs.distance, g), FMul(Incs.elevation, g),
                           cli_qdh, FALSE)
       IN  IF ~u1.returns
           THEN /\ pc' = "hang"
                /\ qdh' = u1.q
                /\ UNCHANGED <<out, values, k>>
           ELSE /\ out' = Append(out, [vals |-> ValuesAdd(values, ValuesMult(Incs, f)),
                                       qdh |-> u1.q, site |-> "close"])
                /\ qdh' = u2.q
                /\ IF u2.returns
                   THEN /\ values' = ValuesMult(Incs, g)
                        /\ k' = k + 1
                        /\ UNCHANGED pc
                   ELSE /\ pc' = "hang"
                        /\ UNCHANGED <<values, k>>
    /\ UNCHANGED <<points, grouping, cli_qdh, group_len, result, inc_distance,
                   inc_elevation, group_length, flush, flushes, tcx, filter>>

\* main, lines 404-409 and 425-429: a pair that stays within the window
StepAccumulate ==
    /\ pc = "fold"
    /\ k < Len(points)
    /\ ~GroupDone
    /\ LET u == QdhUpdate(qdh, Incs.distance, Incs.elevation, cli_qdh, FALSE)
       IN  /\ qdh' = u.q
           /\ IF u.returns
              THEN /\ values' = ValuesAdd(values, Incs)
                   /\ k' = k + 1
                   /\ UNCHANGED pc
              ELSE /\ pc' = "hang"
                   /\ UNCHANGED <<values, k>>
    /\ UNCHANGED <<points, grouping, cli_qdh, group_len, result, out, inc_distance,
                   inc_elevation, group_length, flush, flushes, tcx, filter>>

\* main, lines 432-438
Last ==
    /\ pc = "fold"
    /\ k >= Len(points)
    /\ IF TrailingApplicable(values, group_len)
       THEN LET u == QdhUpdate(qdh, F(0), F(0), cli_qdh, TRUE)
            IN  /\ qdh' = u.q
                /\ IF u.returns
                   THEN /\ out' = Append(out, [vals |-> values, qdh |-> u.q,
                                               site |-> "last"])
                        /\ pc' = "done"
                        /\ result' = "Ok"
                   ELSE /\ pc' = "hang"
                        /\ UNCHANGED <<out, result>>
       ELSE /\ pc' = "done"
            /\ result' = "Ok"
            /\ UNCHANGED <<qdh, out>>
    /\ UNCHANGED <<points, grouping, cli_qdh, group_len, values, k, inc_distance,
                   inc_elevation, group_length, flush, flushes, tcx, filter>>

Next == Start \/ StepClose \/ StepAccumulate \/ Last

Spec == Init /\ [][Next]_vars

-----------------------------------------------------------------------------
(* Claims about the aggregation run *)

SumDistance(o) ==
    LET S[i \in 0..Len(o)] ==
            IF i = 0 THEN F(0) ELSE FAdd(S[i - 1], o[i].vals.distance)
    IN  S[Len(o)]

SumDuration(o) ==
    LET S[i \in 0..Len(o)] ==
            IF i = 0 THEN F(0) ELSE FAdd(S[i - 1], o[i].vals.duration)
    IN  S[Len(o)]

\* whether the run ended by printing the open window (main, line 435)
LastPrinted == out # <<>> /\ out[Len(out)].site = "last"

\* C1: when the run has ended, the distances of the emitted windows plus the
\* distance left in a discarded open window add up to the distance between
\* the first and the last sample.
C1_DistanceConservation ==
    (pc = "done" /\ points # <<>>) =>
        FAdd(SumDistance(out), IF LastPrinted THEN F(0) ELSE values.distance)
            = FSub(points[Len(points)].distance, points[1].distance)

\* C2: when the run has ended, the durations of the emitted windows add up
\* to the time elapsed between the first and the last sample.
C2_DurationPartition ==
    (pc = "done" /\ points # <<>>) =>
        SumDuration(out) = Q(points[Len(points)].time - points[1].time, TicksPerSec)

\* C3: a run with Grouping::Count(group_by, N) emits exactly N windows, each
\* of the window size in the group metric.
C3_CountWindows ==
    (pc = "done" /\ grouping.mode = "Count") =>
        /\ Len(out) = grouping.count
        /\ \A i \in 1..Len(out) : out[i].vals.group_len = group_len

OutDistances == [i \in 1..Len(out) |-> out[i].vals.distance]

\* C4: the run ends with a summary of the open window exactly if the open
\* window's metric exceeds 1e-6 times the window size; the five-sample
\* scenario gives [7.2, 7.2] for a 2 s window and [10.8] plus a final 3.6 m
\* over 1 s for a 3 s window.
C4_TrailingRule ==
    pc = "done" =>
        /\ LastPrinted <=>
              /\ values.group_len # NaN
              /\ group_len # NaN
              /\ FGt(FSub(values.group_len, FMul(Q(1, 1000000), group_len)), F(0))
        /\ \A i \in 1..(Len(out) - 1) : out[i].site = "close"
        /\ (points = ScenarioPoints /\ grouping = ScenarioGrouping(2)) =>
              /\ OutDistances = <<Q(36, 5), Q(36, 5)>>
              /\ ~LastPrinted
        /\ (points = ScenarioPoints /\ grouping = ScenarioGrouping(3)) =>
              /\ OutDistances = <<Q(54, 5), Q(18, 5)>>
              /\ LastPrinted
              /\ out[2].vals.duration = F(1)

C4_Witness ==
    /\ pc = "done"
    /\ points = ScenarioPoints
    /\ grouping = ScenarioGrouping(3)
    /\ LastPrinted

\* the window size the configuration asks for, when there are points to
\* take a span from
WindowSize ==
    IF grouping.mode = "Length" THEN grouping.length
    ELSE FDiv(GroupByGet(grouping.group_by, points[1], points[Len(points)]),
              F(grouping.count))

NoPointsForCount == grouping.mode = "Count" /\ points = <<>>

Monotone(ps) ==
    \A i \in 1..(Len(ps) - 1) :
        /\ ps[i].time <= ps[i + 1].time
        /\ FGe(ps[i + 1].distance, ps[i].distance)

\* C11: in every state of the fold whose next pair closes the window, over
\* samples in recording order, the pair's group increment is greater than
\* zero and the split fraction f is in (0, 1].
C11_SplitFraction ==
    (pc = "fold" /\ k < Len(points) /\ Monotone(points) /\ GroupDone) =>
        /\ FGt(Incs.group_len, F(0))
        /\ FGt(SplitF, F(0))
        /\ FGe(F(1), SplitF)

\* C12: every window emitted by a closing step, over samples in recording
\* order, has a group metric equal to the window size, hence positive.
C12_ClosedWindowFull ==
    Monotone(points) =>
        \A i \in 1..Len(out) :
            out[i].site = "close" =>
                /\ out[i].vals.group_len = group_len
                /\ FGt(out[i].vals.group_len, F(0))

\* the six running sums of the open window
Sums(v) == <<v.group_len, v.duration, v.distance, v.elevation, v.power, v.heartrate>>

\* C15: in every state of the fold, over samples in recording order, the six
\* running sums of the open window are >= 0.
C15_SumsNonNegative ==
    (pc \in {"fold", "done"} /\ Monotone(points)) =>
        \A i \in 1..6 : FGe(Sums(values)[i], F(0))

\* the window summary a step has just emitted
Emitted == out'[Len(out')]

\* C13: a step that closes the window emits a Qdh whose sub-window is empty
\* and whose score includes the bucket forced out below the threshold; it
\* leaves a Qdh built from zero with the (1 - f) share of the pair alone.
C13_BoundaryFlush ==
    [][(pc = "fold" /\ Len(out') = Len(out) + 1 /\ Emitted.site = "close") =>
          LET f  == SplitF
              d  == FAdd(qdh.distance, FMul(Incs.distance, f))
              e  == FAdd(qdh.elevation, FMul(Incs.elevation, f))
              rd == FMul(Incs.distance, FSub(F(1), f))
              re == FMul(Incs.elevation, FSub(F(1), f))
          IN  /\ Emitted.qdh.distance = F(0)
              /\ Emitted.qdh.elevation = F(0)
              /\ (FGt(d, F(0)) /\ FGt(cli_qdh, d)) =>
                    Emitted.qdh.qdh = FAdd(qdh.qdh, FMul(FDiv(FMul(e, e), d), F(10)))
              /\ pc' = "fold" =>
                    qdh' = QdhUpdate(QdhZero, rd, re, cli_qdh, FALSE).q
              /\ (pc' = "fold" /\ FGe(rd, F(0)) /\ FGt(cli_qdh, rd)) =>
                    qdh' = [qdh |-> F(0), distance |-> rd, elevation |-> re]
    ]_vars

\* a window closed on a climb with less than the threshold in its bucket:
\* the bucket is in the emitted score, the rest of the pair in a fresh Qdh
C13_Witness ==
    /\ pc = "fold"
    /\ out # <<>>
    /\ out[Len(out)].site = "close"
    /\ out[Len(out)].qdh.qdh = F(5)
    /\ FGt(cli_qdh, out[Len(out)].vals.distance)
    /\ qdh = [qdh |-> F(0), distance |-> Q(1, 2), elevation |-> Q(1, 2)]

-----------------------------------------------------------------------------
(* Qdh::update on its own, one loop iteration per step *)

\* flushes is only counted up to here; an update that returns stays below
FlushCap == MaxInc + 2

NoMain ==
    /\ points = <<>>
    /\ grouping = [mode |-> "Length", group_by |-> "Duration", length |-> F(0), count |-> 0]
    /\ cli_qdh = F(0)
    /\ group_len = F(0)
    /\ values = ValuesZero
    /\ out = <<>>

IncVals == { F(i) : i \in 0..MaxInc }

InitQdh ==
    /\ qdh = QdhZero
    /\ group_length \in { F(q) : q \in 0..MaxQdhLen }
    /\ inc_distance = F(0)
    /\ inc_elevation = F(0)
    /\ flush = FALSE
    /\ flushes = 0
    /\ k = 0
    /\ pc = "idle"
    /\ result = "running"
    /\ NoMain
    /\ NoTcx

\* entry of Qdh::update (main.rs, lines 290-292) with non-negative increments
QdhCall ==
    /\ pc = "idle"
    /\ k < MaxCalls
    /\ \E d \in IncVals, e \in IncVals, fl \in BOOLEAN :
          /\ inc_distance' = d
          /\ inc_elevation' = e
          /\ flush' = fl
    /\ flushes' = 0
    /\ k' = k + 1
    /\ pc' = "loop"
    /\ UNCHANGED <<points, grouping, cli_qdh, group_len, values, qdh, out,
                   group_length, tcx, filter, result>>

\* one iteration of the while loop (lines 294-300)
QdhIterate ==
    /\ pc = "loop"
    /\ QdhLoopCond(qdh, inc_distance, group_length)
    /\ flushes < FlushCap
    /\ LET s == QdhLoopBody(qdh, inc_distance, inc_elevation, group_length)
       IN  /\ qdh' = s.q
           /\ inc_distance' = s.id
           /\ inc_elevation' = s.ie
    /\ flushes' = flushes + 1
    /\ UNCHANGED <<points, grouping, cli_qdh, group_len, values, k, pc, out,
                   group_length, flush, tcx, filter, result>>

\* leaving the loop and returning (lines 302-306)
QdhReturn ==
    /\ pc = "loop"
    /\ ~QdhLoopCond(qdh, inc_distance, group_length)
    /\ qdh' = QdhTail(qdh, inc_distance, inc_elevation, flush)
    /\ flushes' = IF flush THEN flushes + 1 ELSE flushes
    /\ pc' = "idle"
    /\ UNCHANGED <<points, grouping, cli_qdh, group_len, values, k, out,
                   inc_distance, inc_elevation, group_length, flush, tcx, filter,
                   result>>

NextQdh == QdhCall \/ QdhIterate \/ QdhReturn

SpecQdh == InitQdh /\ [][NextQdh]_vars

\* C5: the loop of Qdh::update ends for every threshold >= 0.  The loop is
\* deterministic in (self, inc_distance, inc_elevation), so it ends only if
\* no iteration leaves these as they were.
C5_UpdateTerminates ==
    [][(pc = "loop" /\ pc' = "loop") =>
          <<qdh, inc_distance, inc_elevation>>' # <<qdh, inc_distance, inc_elevation>>]_vars

Fractions == UNION { { Q(a, b) : a \in 0..b } : b \in 1..MaxDen }

\* the Qdh after update(d1, e1) and then update(d2, e2, flush = fl)
QdhTwice(q, d1, e1, d2, e2, gl, fl) ==
    LET u1 == QdhUpdate(q, d1, e1, gl, FALSE)
        u2 == QdhUpdate(u1.q, d2, e2, gl, fl)
    IN  [q |-> u2.q, returns |-> u1.returns /\ u2.returns]

\* C6 as stated: from any Qdh state, one update by (d, e) and two updates by
\* (d1, e1) and (d - d1, e - e1) leave the same Qdh.
C6_Additivity ==
    pc = "idle" =>
        \A d \in IncVals, e \in IncVals, d1 \in IncVals, e1 \in IncVals :
            LET one == QdhUpdate(qdh, d, e, group_length, FALSE)
                two == QdhTwice(qdh, d1, e1, FSub(d, d1), FSub(e, e1), group_length, FALSE)
            IN  (FGe(d, d1) /\ FGe(e, e1) /\ one.returns /\ two.returns) => one.q = two.q

\* C6 for a split in proportion: from any Qdh state, one update by (d, e)
\* and two updates by t * (d, e) and (1 - t) * (d, e), 0 <= t <= 1, leave the
\* same Qdh whenever all of them return, which they do for every threshold
\* greater than zero.
C6_ProportionalAdditivity ==
    pc = "idle" =>
        \A d \in IncVals, e \in IncVals, t \in Fractions, fl \in BOOLEAN :
            LET one == QdhUpdate(qdh, d, e, group_length, fl)
                two == QdhTwice(qdh, FMul(t, d), FMul(t, e),
                                FMul(FSub(F(1), t), d), FMul(FSub(F(1), t), e),
                                group_length, fl)
            IN  /\ FGt(group_length, F(0)) => (one.returns /\ two.returns)
                /\ (one.returns /\ two.returns) => one.q = two.q

\* a sub-window holding part of a bucket, with a climb, from which an
\* increment split in halves crosses the threshold
C6_Witness ==
    /\ pc = "idle"
    /\ group_length = F(2)
    /\ qdh.distance = F(1)
    /\ qdh.elevation = F(1)
    /\ QdhUpdate(qdh, F(2), F(2), group_length, FALSE).returns
    /\ QdhUpdate(qdh, F(2), F(2), group_length, FALSE).q.qdh # qdh.qdh
    /\ QdhTwice(qdh, F(1), F(1), F(1), F(1), group_length, FALSE).q
         = QdhUpdate(qdh, F(2), F(2), group_length, FALSE).q

\* the bucket the loop iteration about to run flushes
FlushedBucket ==
    LET f == FDiv(FSub(group_length, qdh.distance), inc_distance)
    IN  QdhIncrement(qdh, FMul(f, inc_distance), FMul(f, inc_elevation))

\* C14: for a threshold greater than zero and non-negative increments, after
\* every Qdh::update the sub-window's distance is in [0, threshold), every
\* bucket flushed by the loop has a distance of exactly the threshold, and
\* the score never decreases.
C14_BucketInvariant ==
    /\ []((pc = "idle" /\ FGt(group_length, F(0))) =>
             (FGe(qdh.distance, F(0)) /\ FGt(group_length, qdh.distance)))
    /\ [][FGt(group_length, F(0)) =>
             /\ FGe(qdh'.qdh, qdh.qdh)
             /\ (pc = "loop" /\ pc' = "loop") => FlushedBucket.distance = group_length
       ]_vars

\* a second update on a climb has returned after one flush by the loop:
\* it found 1 in the sub-window, filled the bucket up to the threshold 2
\* and carried the remaining 1 on
C14_Witness ==
    /\ pc = "idle"
    /\ k = 2
    /\ group_length = F(2)
    /\ inc_distance = F(1)
    /\ ~flush
    /\ flushes = 1
    /\ qdh.distance = F(1)
    /\ FGt(qdh.qdh, F(0))

-----------------------------------------------------------------------------
(* Values::delta on its own, over samples no filter has looked at *)

Maybe(S) == {None} \cup S

\* samples with or without an altitude and a distance
DeltaPoints ==
    { Trackpoint(t, None, None, a, d, None, None, None, None) :
        t \in 0..MaxTick,
        a \in Maybe({ F(0), F(1) }),
        d \in Maybe({ F(i) : i \in 0..MaxDist }) }

InitDelta ==
    /\ points \in [1..2 -> DeltaPoints]
    /\ grouping \in { ScenarioGrouping(1),
                      [ScenarioGrouping(1) EXCEPT !.group_by = "Distance"] }
    /\ cli_qdh = F(0)
    /\ group_len = F(0)
    /\ values = ValuesZero
    /\ qdh = QdhZero
    /\ k = 1
    /\ pc = "delta"
    /\ out = <<>>
    /\ result = "running"
    /\ NoFrame
    /\ NoTcx

\* Values::delta(m, n, group_by): the fields are computed in the order of
\* the struct literal, and the expect() on an altitude panics
DeltaCall ==
    /\ pc = "delta"
    /\ IF points[2].altitude = None \/ points[1].altitude = None
       THEN /\ pc' = "panic"
            /\ result' = "panic: UNREACHABLE! Points w/o altitude filtered out"
            /\ UNCHANGED values
       ELSE /\ pc' = "returned"
            /\ result' = "Ok"
            /\ values' = ValuesDelta(points[1], points[2], grouping.group_by)
    /\ UNCHANGED <<points, grouping, cli_qdh, group_len, qdh, k, out, inc_distance,
                   inc_elevation, group_length, flush, flushes, tcx, filter>>

NextDelta == DeltaCall

SpecDelta == InitDelta /\ [][NextDelta]_vars

MissingDistance == points[1].distance = None \/ points[2].distance = None

-----------------------------------------------------------------------------
(* Trackpoint::from_tcx and Trackpoint::parse (lib.rs) *)

\* An XML element: a tag, its text and its child elements.  A text is
\* [ok |-> TRUE, val |-> v] when FromStr parses it to v, and
\* [ok |-> FALSE, val |-> 0] when FromStr rejects it.
Element(tag, text, children) == [tag |-> tag, text |-> text, children |-> children]

Text(v) == [ok |-> TRUE, val |-> v]
BadText == [ok |-> FALSE, val |-> 0]
NoText == Text(0)

Leaf(tag, text) == Element(tag, text, <<>>)

\* the TRK_PT_FIELD array, in the order of the enum's variants
TRK_PT_FIELD ==
    <<"latitude", "longitude", "altitude", "distance", "heartrate", "cadence",
      "speed", "power">>

\* TrkPtField::get_tags
GetTags(field) ==
    CASE field = "latitude"  -> << <<"Position", "LatitudeDegrees">> >>
      [] field = "longitude" -> << <<"Position", "LongitudeDegrees">> >>
      [] field = "altitude"  -> << <<"AltitudeMeters">> >>
      [] field = "distance"  -> << <<"DistanceMeters">> >>
      [] field = "heartrate" -> << <<"HeartRateBpm", "Value">> >>
      [] field = "cadence"   -> << <<"Cadence">>, <<"Extensions", "TPX", "RunCadence">> >>
      [] field = "speed"     -> << <<"Extensions", "TPX", "Speed">> >>
      [] field = "power"     -> << <<"Extensions", "TPX", "Watts">> >>

\* Element::children().filter(is_tag(tag)), in document order
ChildrenWithTag(e, tag) == SelectSeq(e.children, LAMBDA c : c.tag = tag)

\* Element::get_child: the first child with the tag, as a sequence of at
\* most one element
GetChild(e, tag) ==
    LET cs == ChildrenWithTag(e, tag) IN IF cs = <<>> THEN <<>> ELSE <<cs[1]>>

\* the descent of child_value: the element the tags lead to, if every hop
\* is there
RECURSIVE Descend(_, _)
Descend(e, tags) ==
    IF tags = <<>> THEN <<e>>
    ELSE LET c == GetChild(e, Head(tags))
         IN  IF c = <<>> THEN <<>> ELSE Descend(c[1], Tail(tags))

\* TcxElement::child_value: Ok(None), Ok(Some(val)) or Err
ChildValue(e, tags) ==
    LET d == Descend(e, tags)
    IN  IF d = <<>> THEN [kind |-> "none", val |-> 0]
        ELSE IF d[1].text.ok THEN [kind |-> "some", val |-> d[1].text.val]
        ELSE [kind |-> "err", val |-> 0]

\* an inner loop in which the last path that is there wins
RECURSIVE ParseFieldLast(_, _)
ParseFieldLast(e, paths) ==
    IF paths = <<>> THEN [kind |-> "none", val |-> 0]
    ELSE LET r == ParseFieldLast(e, Tail(paths))
         IN  IF r.kind = "none" THEN ChildValue(e, Head(paths)) ELSE r

\* the inner loop of parse (lines 245-250) over the tag paths of one field
RECURSIVE ParseField(_, _)
ParseField(e, paths) ==
    IF paths = <<>> THEN [kind |-> "none", val |-> 0]
    ELSE LET r == ChildValue(e, Head(paths))
         IN  IF r.kind = "none" THEN ParseField(e, Tail(paths)) ELSE r

Ok(v) == [ok |-> TRUE, val |-> v, err |-> "", node |-> 0]
Err(kind, node) == [ok |-> FALSE, val |-> <<>>, err |-> kind, node |-> node]

\* the first field, in TRK_PT_FIELD order from i on, whose value is
\* unparsable; 0 if there is none
RECURSIVE FirstBadField(_, _)
FirstBadField(e, i) ==
    IF i > Len(TRK_PT_FIELD) THEN 0
    ELSE IF ParseField(e, GetTags(TRK_PT_FIELD[i])).kind = "err" THEN i
    ELSE FirstBadField(e, i + 1)

OptionOf(r) == IF r.kind = "some" THEN F(r.val) ELSE None

\* Trackpoint::parse of the idx-th <Trackpoint> of the document; the
\* "Missing time" message prints the node, which idx stands for
Parse(e, idx) ==
    LET time == ChildValue(e, <<"Time">>)
        fld(name) == OptionOf(ParseField(e, GetTags(name)))
    IN  IF time.kind = "err" THEN Err("ParseError", 0)
        ELSE IF time.kind = "none" THEN Err("Missing time", idx)
        ELSE IF FirstBadField(e, 1) # 0 THEN Err("ParseFloatError", 0)
        ELSE Ok(Trackpoint(time.val, fld("latitude"), fld("longitude"),
                           fld("altitude"), fld("distance"), fld("heartrate"),
                           fld("cadence"), fld("speed"), fld("power")))

\* one flat_map level of from_tcx
RECURSIVE FlatMap(_, _)
FlatMap(es, tag) ==
    IF es = <<>> THEN <<>>
    ELSE ChildrenWithTag(Head(es), tag) \o FlatMap(Tail(es), tag)

\* the traversal of from_tcx (lines 184-190)
TrackpointNodes(doc) ==
    FlatMap(FlatMap(FlatMap(FlatMap(FlatMap(<<doc>>, "Activities"), "Activity"),
                            "Lap"), "Track"), "Trackpoint")

\* the filters main hands to from_tcx (main.rs, lines 370-374)
Filter(name, t) ==
    IF name = "all" THEN TRUE ELSE t.altitude # None /\ t.distance # None

\* Vec::dedup: an element equal to the last one kept is dropped
RECURSIVE Dedup(_)
Dedup(ps) ==
    IF Len(ps) <= 1 THEN ps
    ELSE LET front == Dedup(SubSeq(ps, 1, Len(ps) - 1))
             last == ps[Len(ps)]
         IN  IF front[Len(front)] = last THEN front ELSE Append(front, last)

\* a collect that reports the last Err instead of the first
RECURSIVE CollectLast(_)
CollectLast(rs) ==
    IF rs = <<>> THEN Ok(<<>>)
    ELSE LET rest == CollectLast(Tail(rs))
         IN  IF ~rest.ok THEN rest
             ELSE IF ~Head(rs).ok THEN Head(rs)
             ELSE Ok(<<Head(rs).val>> \o rest.val)

\* collect::<Result<Vec<_>, _>>: the first Err, or every Ok value
RECURSIVE Collect(_)
Collect(rs) ==
    IF rs = <<>> THEN Ok(<<>>)
    ELSE IF ~Head(rs).ok THEN Head(rs)
    ELSE LET rest == Collect(Tail(rs))
         IN  IF rest.ok THEN Ok(<<Head(rs).val>> \o rest.val) ELSE rest

\* a from_tcx that removes repeats before it filters
FromTcxDedupFirst(doc, f) ==
    LET nodes == TrackpointNodes(doc)
        parsed == [i \in 1..Len(nodes) |-> Parse(nodes[i], i)]
        got == Collect(parsed)
    IN  IF got.ok THEN Ok(SelectSeq(Dedup(got.val), LAMBDA t : Filter(f, t))) ELSE got

\* Trackpoint::from_tcx
FromTcx(doc, f) ==
    LET nodes == TrackpointNodes(doc)
        parsed == [i \in 1..Len(nodes) |-> Parse(nodes[i], i)]
        kept == SelectSeq(parsed, LAMBDA r : IF r.ok THEN Filter(f, r.val) ELSE TRUE)
        got == Collect(kept)
    IN  IF got.ok THEN Ok(Dedup(got.val)) ELSE got

\* the children a <Trackpoint> may have in the model
TimeKids == { <<>>, <<Leaf("Time", Text(0))>>, <<Leaf("Time", Text(1))>> }

SensorKids ==
    { <<>>, <<Leaf("AltitudeMeters", Text(7)), Leaf("DistanceMeters", Text(5))>> }

RunCadence(text) ==
    Element("Extensions", NoText,
            <<Element("TPX", NoText, <<Leaf("RunCadence", text)>>)>>)

CadenceKids ==
    { <<>>,
      <<RunCadence(Text(90))>>,
      <<Leaf("Cadence", Text(80)), RunCadence(Text(90))>>,
      <<Leaf("Cadence", Text(80)), RunCadence(BadText)>>,
      <<Leaf("Cadence", BadText), RunCadence(Text(90))>>,
      <<Element("Extensions", NoText, <<>>)>> }

NodeVals ==
    { Element("Trackpoint", NoText, t \o s \o c) :
        t \in TimeKids, s \in SensorKids, c \in CadenceKids }

NodeSeqs == UNION { [1..n -> NodeVals] : n \in 0..MaxNodes }

\* A document holding the nodes in two laps, as the test document of
\* lib.rs does, with elements the traversal has to skip: a <Trackpoint>
\* directly under a <Lap>, and a <Creator> under <Activity>.
Doc(nodes) ==
    LET h == (Len(nodes) + 1) \div 2
        stray == Element("Trackpoint", NoText, <<Leaf("Time", Text(1))>>)
        lap(ns) == Element("Lap", NoText, <<stray, Element("Track", NoText, ns)>>)
    IN  Element("TCX", NoText,
          <<Element("Activities", NoText,
              <<Element("Activity", NoText,
                  <<lap(SubSeq(nodes, 1, h)),
                    Leaf("Creator", NoText),
                    lap(SubSeq(nodes, h + 1, Len(nodes)))>>)>>)>>)

InitTcx ==
    /\ \E ns \in NodeSeqs : tcx = Doc(ns)
    /\ filter \in {"all", "alt_dist"}
    /\ result = Ok(<<>>)
    /\ pc = "call"
    /\ k = 0
    /\ qdh = QdhZero
    /\ NoMain
    /\ NoFrame

\* a call of Trackpoint::from_tcx(&tcx, filter)
FromTcxCall ==
    /\ pc = "call"
    /\ result' = FromTcx(tcx, filter)
    /\ pc' = "from_tcx"
    /\ UNCHANGED <<points, grouping, cli_qdh, group_len, values, qdh, k, out,
                   inc_distance, inc_elevation, group_length, flush, flushes,
                   tcx, filter>>

\* a call of Trackpoint::parse on the document's first <Trackpoint>
ParseCall ==
    /\ pc = "call"
    /\ filter = "all"
    /\ TrackpointNodes(tcx) # <<>>
    /\ result' = Parse(TrackpointNodes(tcx)[1], 1)
    /\ k' = 1
    /\ pc' = "parse"
    /\ UNCHANGED <<points, grouping, cli_qdh, group_len, values, qdh, out,
                   inc_distance, inc_elevation, group_length, flush, flushes,
                   tcx, filter>>

NextTcx == FromTcxCall \/ ParseCall

SpecTcx == InitTcx /\ [][NextTcx]_vars

-----------------------------------------------------------------------------
(* Claims about the extraction *)

Nodes == TrackpointNodes(tcx)

ParsedNode(i) == Parse(Nodes[i], i)

\* the samples that parse and pass the filter, in document order
FilteredPoints ==
    LET S[i \in 0..Len(Nodes)] ==
            IF i = 0 THEN <<>>
            ELSE IF ParsedNode(i).ok /\ Filter(filter, ParsedNode(i).val)
                 THEN Append(S[i - 1], ParsedNode(i).val)
                 ELSE S[i - 1]
    IN  S[Len(Nodes)]

\* ps without every element equal to its immediate predecessor in ps
WithoutRepeats(ps) ==
    LET S[i \in 0..Len(ps)] ==
            IF i = 0 THEN <<>>
            ELSE IF i = 1 \/ ps[i] # ps[i - 1] THEN Append(S[i - 1], ps[i])
                 ELSE S[i - 1]
    IN  S[Len(ps)]

\* C8: the samples from_tcx returns are the samples passing the filter, in
\* document order, without those equal to their immediate predecessor among
\* the samples passing the filter, and no two adjacent ones are equal.
C8_FilterThenDedup ==
    (pc = "from_tcx" /\ result.ok) =>
        /\ result.val = WithoutRepeats(FilteredPoints)
        /\ NoAdjacentEqual(result.val)

\* two equal samples around one that the filter drops come out as one
C8_Witness ==
    /\ pc = "from_tcx"
    /\ filter = "alt_dist"
    /\ Len(Nodes) = 3
    /\ result.ok
    /\ Len(result.val) = 1
    /\ ParsedNode(2).ok
    /\ ~Filter(filter, ParsedNode(2).val)
    /\ ParsedNode(1).val = ParsedNode(3).val

CadencePrimary == Descend(Nodes[1], <<"Cadence">>)

CadenceAlternate == Descend(Nodes[1], <<"Extensions", "TPX", "RunCadence">>)

HasTime(e) == Descend(e, <<"Time">>) # <<>>

\* C9: parse tries the tag paths of a field in the listed order.  A primary
\* path that is there decides the field (its value, or the failure of the
\* parse when its text is unparsable) whatever the alternate path holds; the
\* alternate path is used when the primary one is not there; with no path
\* fully there the field is None and the parse does not fail.
C9_FallbackPriority ==
    pc = "parse" =>
        /\ (CadencePrimary # <<>> /\ CadencePrimary[1].text.ok /\ HasTime(Nodes[1])) =>
              /\ result.ok
              /\ result.val.cadence = F(CadencePrimary[1].text.val)
        /\ (CadencePrimary # <<>> /\ ~CadencePrimary[1].text.ok) => ~result.ok
        /\ (CadencePrimary = <<>> /\ CadenceAlternate # <<>> /\ CadenceAlternate[1].text.ok
              /\ HasTime(Nodes[1])) =>
              /\ result.ok
              /\ result.val.cadence = F(CadenceAlternate[1].text.val)
        /\ (CadencePrimary = <<>> /\ CadenceAlternate = <<>> /\ HasTime(Nodes[1])) =>
              /\ result.ok
              /\ result.val.cadence = None

\* both paths of the cadence are there, with different values
C9_Witness ==
    /\ pc = "parse"
    /\ CadencePrimary # <<>>
    /\ CadenceAlternate # <<>>
    /\ CadenceAlternate[1].text.ok
    /\ result.ok
    /\ result.val.cadence = F(80)
    /\ F(CadenceAlternate[1].text.val) = F(90)

NoTimeNodes == { i \in 1..Len(Nodes) : ~HasTime(Nodes[i]) }

FailingNodes == { i \in 1..Len(Nodes) : ~ParsedNode(i).ok }

Min(S) == CHOOSE i \in S : \A j \in S : i <= j

\* C10 as stated: with a sample lacking its timestamp, from_tcx fails with
\* the error of the first such sample.
C10_MissingTimeError ==
    (pc = "from_tcx" /\ NoTimeNodes # {}) =>
        /\ ~result.ok
        /\ result.err = "Missing time"
        /\ result.node = Min(NoTimeNodes)

\* C10 as the code has it: with a sample lacking its timestamp, from_tcx
\* fails, under either filter, with the error of the first sample whose
\* parse fails; that is the first sample lacking a timestamp unless a sample
\* before it holds an unparsable value.
C10_FirstFailureError ==
    (pc = "from_tcx" /\ NoTimeNodes # {}) =>
        /\ ~result.ok
        /\ result = ParsedNode(Min(FailingNodes))
        /\ (Min(FailingNodes) = Min(NoTimeNodes)) =>
              (result.err = "Missing time" /\ result.node = Min(NoTimeNodes))
        /\ (Min(FailingNodes) # Min(NoTimeNodes)) => result.err = "ParseFloatError"

\* the filter drops the first sample, the second has no timestamp
C10_Witness ==
    /\ pc = "from_tcx"
    /\ filter = "alt_dist"
    /\ Len(Nodes) = 3
    /\ ParsedNode(1).ok
    /\ ~Filter(filter, ParsedNode(1).val)
    /\ NoTimeNodes = {2, 3}
    /\ ~result.ok
    /\ result.node = 2

=============================================================================
